---- MODULE Spec2Model ----
(***************************************************************************)
(* HAIGU_DHT22: driver of an I2C temperature / humidity sensor.            *)
(*                                                                         *)
(* The driver is sequential.  It is modelled at the granularity of the bus *)
(* primitives: one step per i2c.writeto, one step per i2c.readfrom_into.   *)
(* The step that receives a non-busy frame also runs the rest of the       *)
(* handler up to its next bus access (unpack, CRC check, conversion,       *)
(* return).  The transport and the sensor are the environment: a write     *)
(* succeeds or raises OSError, a read raises OSError or fills the buffer   *)
(* with a frame drawn from a bounded set.                                  *)
(*                                                                         *)
(* Numbers: a temperature is kept in tenths of a degree (the code rounds   *)
(* to one decimal), a humidity in whole percent (the code rounds to an     *)
(* integer).  Conversions are computed in exact rational arithmetic.       *)
(***************************************************************************)
EXTENDS Integers, Sequences, FiniteSets, TLC

VARIABLES
    pc,            \* "write" | "read" | "idle" | "failed" (__init__ raised) | "conv"
    op,            \* the public operation in progress, or the last one run
    stage,         \* position inside op: which write / read comes next
    humA, humB,    \* self.humA, self.humB            (None or Some(int))
    _temperature,  \* self._temperature               (None or Some(tenths))
    value,         \* get_humidity's local `value` kept across the nested read
    coef,          \* __init__: bytes returned by _get_byte_with_crc_check this round
    result,        \* what the last public operation returned or raised
    rx,            \* frames _read returned during the operation (__init__: the round)
    attempts,      \* calls of i2c.readfrom_into made by the current / last _read
    busy,          \* ... of which returned a frame starting with 0xFF
    errs,          \* ... of which raised
    rounds,        \* __init__: acquisition rounds completed (counted up to MaxRounds)
    bus,           \* commands written and read runs ended during the operation
    last_temp_word,    \* the last temperature word that passed its CRC check
    entry_temperature, \* self._temperature when the operation was called
    arg,           \* conversion harness: the raw word under test
    out            \* conversion harness: the values returned so far

vars == <<pc, op, stage, humA, humB, _temperature, value, coef, result, rx,
          attempts, busy, errs, rounds, bus, last_temp_word, entry_temperature,
          arg, out>>

\* the history variables: they record what happened and decide nothing
hist == <<bus, last_temp_word, entry_temperature>>

--------------------------------------------------------------------------
(* Python values *)

None == <<>>
Some(x) == <<x>>
Val(o) == o[1]

Ret(v) == [kind |-> "return", val |-> v, exc |-> "", at |-> ""]
Raise(e, where) == [kind |-> "raise", val |-> None, exc |-> e, at |-> where]
NoResult == [kind |-> "none", val |-> None, exc |-> "", at |-> ""]

(* Python's ^ and & on non-negative integers *)
RECURSIVE Xor(_, _)
Xor(a, b) ==
    IF a = 0 THEN b
    ELSE IF b = 0 THEN a
    ELSE (((a % 2) + (b % 2)) % 2) + 2 * Xor(a \div 2, b \div 2)

RECURSIVE BitAnd(_, _)
BitAnd(a, b) ==
    IF a = 0 \/ b = 0 THEN 0
    ELSE ((a % 2) * (b % 2)) + 2 * BitAnd(a \div 2, b \div 2)

(* round(n/d) to the nearest integer, ties to even, d > 0 *)
RoundHalfEven(n, d) ==
    LET q == n \div d
        r == n % d
    IN  IF 2 * r < d THEN q
        ELSE IF 2 * r > d THEN q + 1
        ELSE IF q % 2 = 0 THEN q ELSE q + 1

--------------------------------------------------------------------------
(* Commands *)

CMD_MEASURE == 11280
CMD_MEASURE_TEMPERATURE == 52292
CMD_MEASURE_HUMIDITY == 52326
CMD_SOFT_RESET == 12450
CMD_GET_HUMCOEFA_H == 53768
CMD_GET_HUMCOEFB_H == 53770

--------------------------------------------------------------------------
(* struct.pack / struct.unpack; a frame is the tuple of its bytes *)

Pack_H(v) == <<v \div 256, v % 256>>
Unpack_BBB(data) == <<data[1], data[2], data[3]>>
Unpack_HB(data) == <<data[1] * 256 + data[2], data[3]>>
Unpack_HBHB(data) ==
    <<data[1] * 256 + data[2], data[3], data[4] * 256 + data[5], data[6]>>

--------------------------------------------------------------------------
(* _calculate_checksum: CRC-8, polynomial 0x131, initial register 0xFF *)

polynomial == 305

\* faulty variant: the polynomial never applied
CrcStep_shift_only(crc) == BitAnd(crc * 2, 255)

CrcStep(crc) ==
    BitAnd(IF BitAnd(crc, 128) # 0 THEN Xor(crc * 2, polynomial) ELSE crc * 2, 255)

RECURSIVE CrcBits(_, _)
CrcBits(crc, n) == IF n = 0 THEN crc ELSE CrcBits(CrcStep(crc), n - 1)

RECURSIVE CrcBytes(_, _, _)
CrcBytes(crc, data, byteCtr) ==
    IF byteCtr > Len(data) THEN crc
    ELSE CrcBytes(CrcBits(Xor(crc, data[byteCtr]), 8), data, byteCtr + 1)

\* lines 139-149: the register after both bytes of struct.pack(">H", value)
Crc8(v) == CrcBytes(255, Pack_H(v), 1)

--------------------------------------------------------------------------
(* Conversions *)

\* the raw word after the mask and the re-basing of lines 155-157
TemperatureRebase(v) ==
    LET masked == BitAnd(v, 65504)
    IN  IF masked > 2047 THEN masked - 65534 ELSE masked

\* round(40.0 + value/256.0, 1), in tenths of a degree
_compute_temperature(v) ==
    RoundHalfEven(10 * (40 * 256 + TemperatureRebase(v)), 256)

\* rel of lines 163-164 as the fraction num/den with den > 0:
\*   30 + (value-humB)*60/(humA-humB) + 0.25*(T-25.0),  T = t10/10
HumidityNum(v, a, b, t10) ==
    LET n == 1200 * (a - b) + 2400 * (v - b) + (t10 - 250) * (a - b)
    IN  IF a > b THEN n ELSE 0 - n

HumidityDen(a, b) == IF a > b THEN 40 * (a - b) ELSE 40 * (b - a)

\* faulty variant: the clamp left out
HumidityClamp_missing(num, den) == RoundHalfEven(num, den)

\* the clamp of lines 165-169 and int(round(rel, 0))
HumidityClamp(num, den) ==
    IF num > 100 * den THEN 100
    ELSE IF num < 0 THEN 0
    ELSE RoundHalfEven(num, den)

\* _compute_humidity(value, temperature) on a driver with the given fields.
\* The temperature argument is not read; self._temperature is.
_compute_humidity(v, temperature, self_humA, self_humB, self_temperature) ==
    IF Val(self_humA) = Val(self_humB)
    THEN Raise("ZeroDivisionError", "_compute_humidity")
    ELSE IF self_temperature = None
    THEN Raise("TypeError", "_compute_humidity")
    ELSE Ret(Some(HumidityClamp(
            HumidityNum(v, Val(self_humA), Val(self_humB), Val(self_temperature)),
            HumidityDen(Val(self_humA), Val(self_humB)))))

--------------------------------------------------------------------------
(* Environment: what the transport and the sensor may do *)

\* failed read attempts (busy or raising) the environment makes per _read
MaxRetries == 2

\* completed coefficient rounds are counted up to this number
MaxRounds == 2

\* raw measurement words the sensor may deliver, the first NumMeasWords of them
MeasWordList == <<0, 1792, 65280, 2048, 5000, 256>>
NumMeasWords == 4
MeasWords == {MeasWordList[i] : i \in 1..NumMeasWords}

\* coefficient bytes the sensor may deliver, the first NumCoefBytes of them
CoefByteList == <<128, 0, 255, 35, 1>>
NumCoefBytes == 3
CoefBytes == {CoefByteList[i] : i \in 1..NumCoefBytes}

\* the data words of the frames the sensor may deliver
SensorWords == MeasWords \cup {b * 256 : b \in CoefBytes}

\* _calculate_checksum; the checksums of the sensor's words are computed once
CrcMemo == [v \in SensorWords |-> Crc8(v)]
_calculate_checksum(v) == IF v \in DOMAIN CrcMemo THEN CrcMemo[v] ELSE Crc8(v)

\* the CRC byte sent with a word: the right one, or one with a flipped bit
CrcChoices(w) == {_calculate_checksum(w), Xor(_calculate_checksum(w), 1)}

Frame3(w, c) == <<w \div 256, w % 256, c>>
MeasFrames3 == UNION {{Frame3(w, c) : c \in CrcChoices(w)} : w \in MeasWords}
CoefFrames3 == UNION {{Frame3(b * 256, c) : c \in CrcChoices(b * 256)} : b \in CoefBytes}
MeasFrames6 == {f \o g : f \in MeasFrames3, g \in MeasFrames3}

\* what a read may put in the buffer after command cmd
SensorFrames(cmd) ==
    IF cmd = CMD_MEASURE THEN MeasFrames6
    ELSE IF cmd \in {CMD_MEASURE_TEMPERATURE, CMD_MEASURE_HUMIDITY} THEN MeasFrames3
    ELSE CoefFrames3

--------------------------------------------------------------------------
(* The driver *)

PublicOps == {"soft_reset", "get_temperature", "get_humidity",
              "get_temperature_and_humidity"}

\* the four commands of get_humidity_coefficients, in the order issued
CoefCommands == <<CMD_GET_HUMCOEFA_H, CMD_GET_HUMCOEFA_H + 1,
                  CMD_GET_HUMCOEFB_H, CMD_GET_HUMCOEFB_H + 1>>

\* the command the operation writes at this stage
Command(o, s) ==
    CASE o = "__init__" -> IF s = 0 THEN CMD_SOFT_RESET ELSE CoefCommands[s]
      [] o = "soft_reset" -> CMD_SOFT_RESET
      [] o = "get_temperature" -> CMD_MEASURE_TEMPERATURE
      [] o = "get_humidity" ->
            IF s = 0 THEN CMD_MEASURE_HUMIDITY ELSE CMD_MEASURE_TEMPERATURE
      [] o = "get_temperature_and_humidity" -> CMD_MEASURE

\* the number of bytes the operation asks _read for
Count(o) == IF o = "get_temperature_and_humidity" THEN 6 ELSE 3

\* entries of bus: a command i2c.writeto accepted, a _read(count) that returned
Written(cmd) == <<"w", cmd>>
ReadRun(count) == <<"r", count>>

\* bus keeps the soft reset of __init__ and the current round of four
\* sub-reads: the eight entries of a completed round are dropped when the
\* next command is written
CurrentRound(b) == IF Len(b) >= 9 THEN SubSeq(b, 1, Len(b) - 8) ELSE b

\* the temperature word of a frame answering cmd if its CRC byte matches,
\* else the word seen before
TemperatureWordSeen(cmd, data, before) ==
    IF cmd \in {CMD_MEASURE_TEMPERATURE, CMD_MEASURE}
          /\ _calculate_checksum(data[1] * 256 + data[2]) = data[3]
    THEN Some(data[1] * 256 + data[2])
    ELSE before

Init ==
    /\ pc = "write"
    /\ op = "__init__"
    /\ stage = 0
    /\ humA = None
    /\ humB = None
    /\ _temperature = None
    /\ value = None
    /\ coef = <<>>
    /\ result = NoResult
    /\ rx = <<>>
    /\ attempts = 0
    /\ busy = 0
    /\ errs = 0
    /\ rounds = 0
    /\ bus = <<>>
    /\ last_temp_word = None
    /\ entry_temperature = None
    /\ arg = 0
    /\ out = <<>>

\* the host calls a public operation of the constructed driver
Call(o) ==
    /\ pc = "idle"
    /\ pc' = "write"
    /\ op' = o
    /\ stage' = 0
    /\ value' = None
    /\ result' = NoResult
    /\ rx' = <<>>
    /\ attempts' = 0
    /\ busy' = 0
    /\ errs' = 0
    /\ bus' = <<>>
    /\ entry_temperature' = _temperature
    /\ UNCHANGED <<humA, humB, _temperature, coef, rounds, last_temp_word, arg, out>>

\* faulty variant: soft_reset also sets the coefficients back to zero
_write_ok_reset_clears ==
    /\ pc = "write"
    /\ IF op = "soft_reset"
       THEN /\ pc' = "idle"
            /\ result' = Ret(None)
            /\ UNCHANGED stage
       ELSE IF op = "__init__" /\ stage = 0
       THEN /\ pc' = "write"
            /\ stage' = 1
            /\ UNCHANGED result
       ELSE /\ pc' = "read"
            /\ UNCHANGED <<stage, result>>
    /\ attempts' = 0
    /\ busy' = 0
    /\ errs' = 0
    /\ bus' = Append(CurrentRound(bus), Written(Command(op, stage)))
    /\ humA' = IF op = "soft_reset" THEN Some(0) ELSE humA
    /\ humB' = IF op = "soft_reset" THEN Some(0) ELSE humB
    /\ UNCHANGED <<op, _temperature, value, coef, rx, rounds,
                   last_temp_word, entry_temperature, arg, out>>

\* faulty variant: soft_reset waits for a response like the other commands
_write_ok_reset_reads ==
    /\ pc = "write"
    /\ IF op = "soft_reset"
       THEN /\ pc' = "read"
            /\ UNCHANGED <<stage, result>>
       ELSE IF op = "__init__" /\ stage = 0
       THEN /\ pc' = "write"
            /\ stage' = 1
            /\ UNCHANGED result
       ELSE /\ pc' = "read"
            /\ UNCHANGED <<stage, result>>
    /\ attempts' = 0
    /\ busy' = 0
    /\ errs' = 0
    /\ bus' = Append(CurrentRound(bus), Written(Command(op, stage)))
    /\ UNCHANGED <<op, humA, humB, _temperature, value, coef, rx, rounds,
                   last_temp_word, entry_temperature, arg, out>>

\* _write: i2c.writeto accepts the command
_write_ok ==
    /\ pc = "write"
    /\ IF op = "soft_reset"
       THEN /\ pc' = "idle"
            /\ result' = Ret(None)
            /\ UNCHANGED stage
       ELSE IF op = "__init__" /\ stage = 0
       THEN /\ pc' = "write"
            /\ stage' = 1
            /\ UNCHANGED result
       ELSE /\ pc' = "read"
            /\ UNCHANGED <<stage, result>>
    /\ attempts' = 0
    /\ busy' = 0
    /\ errs' = 0
    /\ bus' = Append(CurrentRound(bus), Written(Command(op, stage)))
    /\ UNCHANGED <<op, humA, humB, _temperature, value, coef, rx, rounds,
                   last_temp_word, entry_temperature, arg, out>>

\* _write: i2c.writeto raises; nothing catches it
_write_raises ==
    /\ pc = "write"
    /\ pc' = IF op = "__init__" THEN "failed" ELSE "idle"
    /\ result' = Raise("OSError", "writeto")
    /\ UNCHANGED <<op, stage, humA, humB, _temperature, value, coef, rx,
                   attempts, busy, errs, rounds, hist, arg, out>>

\* faulty variant: the busy check made on the last byte of the buffer
ReadSucceeded_last_byte(data) == data[Len(data)] # 255

\* faulty variant: the busy check left out
ReadSucceeded_any(data) == TRUE

\* _read, line 121: the frame ends the loop
ReadSucceeded(data) == data[1] # 255

\* faulty variant: no handler around the read, the error leaves _read
_read_raises_propagates ==
    /\ pc = "read"
    /\ attempts < MaxRetries
    /\ attempts' = attempts + 1
    /\ errs' = errs + 1
    /\ pc' = IF op = "__init__" THEN "failed" ELSE "idle"
    /\ result' = Raise("OSError", "readfrom_into")
    /\ UNCHANGED <<op, stage, humA, humB, _temperature, value, coef,
                   rx, busy, rounds, hist, arg, out>>

\* _read: i2c.readfrom_into raises; the handler prints and the loop goes on
_read_raises ==
    /\ pc = "read"
    /\ attempts < MaxRetries
    /\ attempts' = attempts + 1
    /\ errs' = errs + 1
    /\ UNCHANGED <<pc, op, stage, humA, humB, _temperature, value, coef, result,
                   rx, busy, rounds, hist, arg, out>>

\* faulty variant: _read gives up on a busy frame
_read_busy_gives_up(data) ==
    /\ pc = "read"
    /\ attempts < MaxRetries
    /\ ~ReadSucceeded(data)
    /\ attempts' = attempts + 1
    /\ busy' = busy + 1
    /\ pc' = IF op = "__init__" THEN "failed" ELSE "idle"
    /\ result' = Raise("OSError", "_read")
    /\ UNCHANGED <<op, stage, humA, humB, _temperature, value, coef,
                   rx, errs, rounds, hist, arg, out>>

\* _read: the buffer starts with 0xFF; sleep 1 ms and read again
_read_busy(data) ==
    /\ pc = "read"
    /\ attempts < MaxRetries
    /\ ~ReadSucceeded(data)
    /\ attempts' = attempts + 1
    /\ busy' = busy + 1
    /\ UNCHANGED <<pc, op, stage, humA, humB, _temperature, value, coef, result,
                   rx, errs, rounds, hist, arg, out>>

\* _get_byte_with_crc_check after _read(3): the byte, or None
_get_byte_with_crc_check(raw_bytes) ==
    LET u == Unpack_BBB(raw_bytes)
    IN  IF _calculate_checksum(u[1] * 256 + u[2]) = u[3] THEN Some(u[1]) ELSE None

\* _get_coefficient from its two sub-reads (named low, high in that order)
_get_coefficient(low, high) ==
    IF low = None \/ high = None THEN None
    ELSE Some(Val(low) * 256 + Val(high))

\* faulty variant: the word returned whatever the checksum
_read_integer_response_unchecked(data) == Some(Unpack_HB(data)[1])

\* _read_integer_response after _read(3): the word, or None
_read_integer_response(data) ==
    LET u == Unpack_HB(data)
    IN  IF _calculate_checksum(u[1]) = u[2] THEN Some(u[1]) ELSE None

\* faulty variant: the loop of lines 38-42 left as soon as one coefficient is present
__init__or(data) ==
    LET c == Append(IF stage = 1 THEN <<>> ELSE coef, _get_byte_with_crc_check(data))
        a == _get_coefficient(c[1], c[2])
        b == _get_coefficient(c[3], c[4])
    IN  /\ op = "__init__"
        /\ coef' = c
        /\ rx' = Append(IF stage = 1 THEN <<>> ELSE rx, data)
        /\ IF stage < 4
           THEN /\ stage' = stage + 1
                /\ pc' = "write"
                /\ UNCHANGED <<humA, humB, result, rounds>>
           ELSE /\ humA' = a
                /\ rounds' = IF rounds < MaxRounds THEN rounds + 1 ELSE rounds
                /\ humB' = b
                /\ IF a # None \/ b # None
                   THEN /\ pc' = "idle"
                        /\ result' = Ret(None)
                        /\ UNCHANGED stage
                   ELSE /\ pc' = "write"
                        /\ stage' = 1
                        /\ UNCHANGED result
        /\ UNCHANGED <<_temperature, value>>

\* faulty variant: the soft reset of line 36 repeated before every retry
__init__reset_again(data) ==
    LET c == Append(IF stage = 1 THEN <<>> ELSE coef, _get_byte_with_crc_check(data))
        a == _get_coefficient(c[1], c[2])
        b == _get_coefficient(c[3], c[4])
    IN  /\ op = "__init__"
        /\ coef' = c
        /\ rx' = Append(IF stage = 1 THEN <<>> ELSE rx, data)
        /\ IF stage < 4
           THEN /\ stage' = stage + 1
                /\ pc' = "write"
                /\ UNCHANGED <<humA, humB, result, rounds>>
           ELSE /\ humA' = a
                /\ rounds' = IF rounds < MaxRounds THEN rounds + 1 ELSE rounds
                /\ humB' = b
                /\ IF a # None /\ b # None
                   THEN /\ pc' = "idle"
                        /\ result' = Ret(None)
                        /\ UNCHANGED stage
                   ELSE /\ pc' = "write"
                        /\ stage' = 0
                        /\ UNCHANGED result
        /\ UNCHANGED <<_temperature, value>>

\* __init__: one sub-read of get_humidity_coefficients returns; after the
\* fourth, lines 40-42 assign the coefficients and leave the loop or repeat
__init__(data) ==
    LET c == Append(IF stage = 1 THEN <<>> ELSE coef, _get_byte_with_crc_check(data))
        a == _get_coefficient(c[1], c[2])
        b == _get_coefficient(c[3], c[4])
    IN  /\ op = "__init__"
        /\ coef' = c
        /\ rx' = Append(IF stage = 1 THEN <<>> ELSE rx, data)
        /\ IF stage < 4
           THEN /\ stage' = stage + 1
                /\ pc' = "write"
                /\ UNCHANGED <<humA, humB, result, rounds>>
           ELSE /\ humA' = a
                /\ rounds' = IF rounds < MaxRounds THEN rounds + 1 ELSE rounds
                /\ humB' = b
                /\ IF a # None /\ b # None
                   THEN /\ pc' = "idle"
                        /\ result' = Ret(None)
                        /\ UNCHANGED stage
                   ELSE /\ pc' = "write"
                        /\ stage' = 1
                        /\ UNCHANGED result
        /\ UNCHANGED <<_temperature, value>>

\* faulty variant: the converted temperature returned without being cached
get_temperature_uncached(data) ==
    LET v == _read_integer_response(data)
    IN  /\ op = "get_temperature"
        /\ rx' = Append(rx, data)
        /\ pc' = "idle"
        /\ IF v = None
           THEN /\ result' = Ret(None)
                /\ UNCHANGED _temperature
           ELSE /\ result' = Ret(Some(_compute_temperature(Val(v))))
                /\ UNCHANGED _temperature
        /\ UNCHANGED <<stage, humA, humB, value, coef, rounds>>

\* get_temperature from line 94 on
get_temperature(data) ==
    LET v == _read_integer_response(data)
    IN  /\ op = "get_temperature"
        /\ rx' = Append(rx, data)
        /\ pc' = "idle"
        /\ IF v = None
           THEN /\ result' = Ret(None)
                /\ UNCHANGED _temperature
           ELSE /\ _temperature' = Some(_compute_temperature(Val(v)))
                /\ result' = Ret(_temperature')
        /\ UNCHANGED <<stage, humA, humB, value, coef, rounds>>

\* faulty variant: the temperature measured on every get_humidity
get_humidity_always_measures(data) ==
    LET v == _read_integer_response(data)
        t == IF v = None THEN _temperature ELSE Some(_compute_temperature(Val(v)))
    IN  /\ op = "get_humidity"
        /\ rx' = Append(rx, data)
        /\ IF stage = 0
           THEN IF v = None
                THEN /\ pc' = "idle"
                     /\ result' = Ret(None)
                     /\ UNCHANGED <<stage, value, _temperature>>
                ELSE IF TRUE
                THEN /\ pc' = "write"
                     /\ stage' = 1
                     /\ value' = v
                     /\ UNCHANGED <<result, _temperature>>
                ELSE /\ pc' = "idle"
                     /\ result' = _compute_humidity(Val(v), None, humA, humB,
                                                    _temperature)
                     /\ UNCHANGED <<stage, value, _temperature>>
           ELSE /\ pc' = "idle"
                /\ _temperature' = t
                /\ result' = _compute_humidity(Val(value), None, humA, humB, t)
                /\ UNCHANGED <<stage, value>>
        /\ UNCHANGED <<humA, humB, coef, rounds>>

\* get_humidity from line 103 on; stage 1 is the get_temperature of line 107
get_humidity(data) ==
    LET v == _read_integer_response(data)
        t == IF v = None THEN _temperature ELSE Some(_compute_temperature(Val(v)))
    IN  /\ op = "get_humidity"
        /\ rx' = Append(rx, data)
        /\ IF stage = 0
           THEN IF v = None
                THEN /\ pc' = "idle"
                     /\ result' = Ret(None)
                     /\ UNCHANGED <<stage, value, _temperature>>
                ELSE IF _temperature = None
                THEN /\ pc' = "write"
                     /\ stage' = 1
                     /\ value' = v
                     /\ UNCHANGED <<result, _temperature>>
                ELSE /\ pc' = "idle"
                     /\ result' = _compute_humidity(Val(v), None, humA, humB,
                                                    _temperature)
                     /\ UNCHANGED <<stage, value, _temperature>>
           ELSE /\ pc' = "idle"
                /\ _temperature' = t
                /\ result' = _compute_humidity(Val(value), None, humA, humB, t)
                /\ UNCHANGED <<stage, value>>
        /\ UNCHANGED <<humA, humB, coef, rounds>>

\* faulty variant: line 79 without "and temp is not None"
get_temperature_and_humidity_unguarded(data) ==
    LET u == Unpack_HBHB(data)
        temp == IF _calculate_checksum(u[1]) = u[2]
                THEN Some(_compute_temperature(u[1])) ELSE None
        t == IF temp = None THEN _temperature ELSE temp
        h == _compute_humidity(u[3], temp, humA, humB, t)
    IN  /\ op = "get_temperature_and_humidity"
        /\ rx' = Append(rx, data)
        /\ pc' = "idle"
        /\ _temperature' = t
        /\ IF _calculate_checksum(u[3]) = u[4]
           THEN result' = IF h.kind = "raise" THEN h ELSE Ret(<<temp, h.val>>)
           ELSE result' = Ret(<<temp, None>>)
        /\ UNCHANGED <<stage, humA, humB, value, coef, rounds>>

\* faulty variant: the humidity converted before the new temperature is cached
get_temperature_and_humidity_stale(data) ==
    LET u == Unpack_HBHB(data)
        temp == IF _calculate_checksum(u[1]) = u[2]
                THEN Some(_compute_temperature(u[1])) ELSE None
        t == IF temp = None THEN _temperature ELSE temp
        h == _compute_humidity(u[3], temp, humA, humB, _temperature)
    IN  /\ op = "get_temperature_and_humidity"
        /\ rx' = Append(rx, data)
        /\ pc' = "idle"
        /\ _temperature' = t
        /\ IF _calculate_checksum(u[3]) = u[4] /\ temp # None
           THEN result' = IF h.kind = "raise" THEN h ELSE Ret(<<temp, h.val>>)
           ELSE result' = Ret(<<temp, None>>)
        /\ UNCHANGED <<stage, humA, humB, value, coef, rounds>>

\* get_temperature_and_humidity from line 73 on
get_temperature_and_humidity(data) ==
    LET u == Unpack_HBHB(data)
        temp == IF _calculate_checksum(u[1]) = u[2]
                THEN Some(_compute_temperature(u[1])) ELSE None
        t == IF temp = None THEN _temperature ELSE temp
        h == _compute_humidity(u[3], temp, humA, humB, t)
    IN  /\ op = "get_temperature_and_humidity"
        /\ rx' = Append(rx, data)
        /\ pc' = "idle"
        /\ _temperature' = t
        /\ IF _calculate_checksum(u[3]) = u[4] /\ temp # None
           THEN result' = IF h.kind = "raise" THEN h ELSE Ret(<<temp, h.val>>)
           ELSE result' = Ret(<<temp, None>>)
        /\ UNCHANGED <<stage, humA, humB, value, coef, rounds>>

\* _read: the buffer holds a frame that ends the loop; the caller goes on
_read_returns(data) ==
    /\ pc = "read"
    /\ ReadSucceeded(data)
    /\ attempts' = attempts + 1
    /\ \/ __init__(data)
       \/ get_temperature(data)
       \/ get_humidity(data)
       \/ get_temperature_and_humidity(data)
    /\ bus' = Append(bus, ReadRun(Count(op)))
    /\ last_temp_word' = TemperatureWordSeen(Command(op, stage), data, last_temp_word)
    /\ UNCHANGED <<op, busy, errs, entry_temperature, arg, out>>

Next ==
    \/ \E o \in PublicOps : Call(o)
    \/ _write_ok
    \/ _write_raises
    \/ _read_raises
    \/ \E data \in SensorFrames(Command(op, stage)) : _read_busy(data)
    \/ \E data \in SensorFrames(Command(op, stage)) : _read_returns(data)

Spec == Init /\ [][Next]_vars

--------------------------------------------------------------------------
(* The conversions alone, applied to inputs drawn from bounded sets *)

\* a driver after construction, about to run a conversion on arg
ConvInit(fn) ==
    /\ pc = "conv"
    /\ op = fn
    /\ stage = 0
    /\ value = None
    /\ coef = <<>>
    /\ result = NoResult
    /\ rx = <<>>
    /\ attempts = 0
    /\ busy = 0
    /\ errs = 0
    /\ rounds = 1
    /\ bus = <<>>
    /\ last_temp_word = None
    /\ entry_temperature = None
    /\ out = <<>>

\* every raw word v for which v + 256 is a 16-bit word too
TemperatureArgs == 0..(65535 - 256)

InitTemperature ==
    /\ ConvInit("_compute_temperature")
    /\ humA = Some(32768)
    /\ humB = Some(0)
    /\ _temperature = None
    /\ arg \in TemperatureArgs

\* _compute_temperature(arg), then _compute_temperature(arg + 256)
ConvTemperature ==
    /\ pc = "conv"
    /\ op = "_compute_temperature"
    /\ Len(out) < 2
    /\ _temperature' = Some(_compute_temperature(arg + 256 * Len(out)))
    /\ out' = Append(out, Val(_temperature'))
    /\ UNCHANGED <<pc, op, stage, humA, humB, value, coef, result, rx, attempts,
                   busy, errs, rounds, hist, arg>>

SpecTemperature == InitTemperature /\ [][ConvTemperature]_vars

\* 16-bit words spread over the whole range, and those of the spec's scenario
GridSteps == 12
Grid == {(65535 * k) \div GridSteps : k \in 0..GridSteps} \cup {1000, 5000, 9000}

\* raw temperature words whose conversions are the cached temperatures tried
CachedTemperatureWords == {0, 64, 2016, 2048, 3840, 32768, 65504}

InitHumidity ==
    /\ ConvInit("_compute_humidity")
    /\ humA \in {Some(a) : a \in Grid}
    /\ humB \in {Some(b) : b \in Grid}
    /\ _temperature \in {None} \cup
            {Some(_compute_temperature(w)) : w \in CachedTemperatureWords}
    /\ arg \in Grid

\* _compute_humidity(arg)
ConvHumidity ==
    /\ pc = "conv"
    /\ op = "_compute_humidity"
    /\ out = <<>>
    /\ out' = <<_compute_humidity(arg, None, humA, humB, _temperature)>>
    /\ UNCHANGED <<pc, op, stage, humA, humB, _temperature, value, coef, result,
                   rx, attempts, busy, errs, rounds, hist, arg>>

SpecHumidity == InitHumidity /\ [][ConvHumidity]_vars

\* Spec with the transport eventually delivering a frame that does not start
\* with 0xFF to a driver that keeps reading
SpecLive ==
    Spec /\ WF_vars(\E data \in SensorFrames(Command(op, stage)) : _read_returns(data))

\* 16-bit words spread over the whole range
ChecksumSteps == 1000
ChecksumArgs == {(65535 * k) \div ChecksumSteps : k \in 0..ChecksumSteps}

\* the word x with bit i inverted
FlipBit(x, i) == Xor(x, 2 ^ i)

InitChecksum ==
    /\ ConvInit("_calculate_checksum")
    /\ humA = Some(32768)
    /\ humB = Some(0)
    /\ _temperature = None
    /\ arg \in ChecksumArgs

\* _calculate_checksum of arg and of arg with bit i inverted, and what
\* _read_integer_response makes of the corrupted word under arg's CRC byte
ConvChecksum(i) ==
    /\ pc = "conv"
    /\ op = "_calculate_checksum"
    /\ out = <<>>
    /\ out' = <<i,
                _calculate_checksum(arg),
                _calculate_checksum(FlipBit(arg, i)),
                _read_integer_response(
                    Frame3(FlipBit(arg, i), _calculate_checksum(arg)))>>
    /\ UNCHANGED <<pc, op, stage, humA, humB, _temperature, value, coef, result,
                   rx, attempts, busy, errs, rounds, hist, arg>>

SpecChecksum == InitChecksum /\ [][\E i \in 0..15 : ConvChecksum(i)]_vars

--------------------------------------------------------------------------
(* Properties *)

\* the operation has returned or raised
Done(o) == pc = "idle" /\ op = o /\ result.kind # "none"

\* the CRC byte of a 3-byte frame matches its 16-bit word
CrcOk3(f) == _calculate_checksum(f[1] * 256 + f[2]) = f[3]

\* the same for the temperature and the humidity group of a 6-byte frame
TempOk6(f) == CrcOk3(<<f[1], f[2], f[3]>>)
HumOk6(f) == CrcOk3(<<f[4], f[5], f[6]>>)

\* the last _read has returned: the counters are those of that _read
ReadReturned == Len(rx) > 0 /\ pc # "read"

\* a coefficient round has just ended: humA, humB are those it produced
RoundDone ==
    /\ op = "__init__"
    /\ Len(rx) = 4
    /\ pc = "idle" \/ (pc = "write" /\ stage = 1)

\* C1: a value whose CRC check fails is returned as None by get_temperature,
\* get_humidity and get_temperature_and_humidity; never a number, never the
\* cached temperature.
C1_CrcFailureIsAbsent ==
    /\ (Done("get_temperature") /\ Len(rx) = 1 /\ ~CrcOk3(rx[1]))
          => result = Ret(None)
    /\ (Done("get_humidity") /\ Len(rx) >= 1 /\ ~CrcOk3(rx[1]))
          => result = Ret(None)
    /\ (Done("get_humidity") /\ Len(rx) = 2 /\ ~CrcOk3(rx[2]))
          => /\ ~(result.kind = "return" /\ result.val # None)
             /\ _temperature = None
    /\ (Done("get_temperature_and_humidity") /\ Len(rx) = 1 /\ ~TempOk6(rx[1]))
          => result = Ret(<<None, None>>)
    /\ (Done("get_temperature_and_humidity") /\ Len(rx) = 1 /\ ~HumOk6(rx[1]))
          => result.kind = "return" /\ result.val[2] = None

\* C1 witness: get_temperature returned None on a bad CRC although a
\* temperature was cached.
C1_Witness ==
    /\ Done("get_temperature")
    /\ Len(rx) = 1
    /\ ~CrcOk3(rx[1])
    /\ _temperature # None
    /\ result = Ret(None)

\* C2 (as claimed): get_humidity with no cached temperature, a humidity frame
\* that passes the CRC check and a temperature frame that fails it returns None
\* and raises nothing.  Stated for humA # humB, where the division of line 163
\* is defined.
C2_HumidityAbsentWhenTemperatureFails ==
    (Done("get_humidity") /\ Len(rx) = 2 /\ CrcOk3(rx[1]) /\ ~CrcOk3(rx[2])
        /\ humA # humB)
        => result = Ret(None)

\* C3 (as claimed): with humA = humB accepted at construction, a humidity
\* conversion on CRC-valid frames yields an absent humidity and raises nothing.
C3_EqualCoefficientsGiveAbsent ==
    /\ (Done("get_humidity") /\ humA = humB /\ result.at # "writeto"
            /\ \A i \in 1..Len(rx) : CrcOk3(rx[i]))
          => result = Ret(None)
    /\ (Done("get_temperature_and_humidity") /\ humA = humB /\ Len(rx) = 1
            /\ TempOk6(rx[1]) /\ HumOk6(rx[1]))
          => result.kind = "return" /\ result.val[2] = None

\* C4: when no read attempt raises and the first N frames are busy, _read
\* returns after exactly N+1 attempts, and the frame it returns does not start
\* with 0xFF.
C4_BusyRetry ==
    /\ (ReadReturned /\ errs = 0) => attempts = busy + 1
    /\ \A i \in 1..Len(rx) : rx[i][1] # 255

\* C4 witness: a _read returned after two busy frames and no error.
C4_Witness == ReadReturned /\ errs = 0 /\ busy = 2 /\ attempts = 3

\* C5: in get_temperature_and_humidity with humA # humB the temperature is
\* present exactly when its CRC passes, the humidity exactly when both CRCs pass.
C5_CombinedPresence ==
    (Done("get_temperature_and_humidity") /\ Len(rx) = 1 /\ humA # humB)
        => /\ result.kind = "return"
           /\ (result.val[1] # None) <=> TempOk6(rx[1])
           /\ (result.val[2] # None) <=> (TempOk6(rx[1]) /\ HumOk6(rx[1]))

\* C5 witness: the humidity CRC failed and the temperature was still returned.
C5_Witness ==
    /\ Done("get_temperature_and_humidity")
    /\ Len(rx) = 1
    /\ humA # humB
    /\ TempOk6(rx[1])
    /\ ~HumOk6(rx[1])
    /\ result.kind = "return"
    /\ result.val[1] # None
    /\ result.val[2] = None

\* C6: construction returns only with humA and humB present, and only at the
\* end of a round whose four frames all pass the CRC check; a round ending with
\* all four valid always returns, any other round starts the four reads again.
C6_ConstructionNeedsBothCoefficients ==
    /\ pc = "idle" => (humA # None /\ humB # None)
    /\ (pc = "idle" /\ op = "__init__")
          => (Len(rx) = 4 /\ \A i \in 1..4 : CrcOk3(rx[i]))
    /\ (RoundDone /\ \A i \in 1..4 : CrcOk3(rx[i])) => pc = "idle"
    /\ (RoundDone /\ pc = "write")
          => (rounds >= 1 /\ result.kind = "none" /\ (humA = None \/ humB = None))

\* C6 witness: construction returned at the end of its second round.
C6_Witness == pc = "idle" /\ op = "__init__" /\ rounds = 2 /\ result = Ret(None)

\* C7 (as claimed): _compute_temperature(v + 256) = _compute_temperature(v) + 1.0
C7_TemperatureAffine == Len(out) = 2 => out[2] = out[1] + 10

\* C8: with humA # humB and a cached temperature, _compute_humidity returns an
\* integer in 0..100.
C8_HumidityInRange ==
    (op = "_compute_humidity" /\ Len(out) = 1 /\ humA # humB /\ _temperature # None)
        => /\ out[1].kind = "return"
           /\ Val(out[1].val) \in 0..100

\* C8 witness: a conversion whose unclamped value is above 100 returned 100.
C8_Witness ==
    /\ op = "_compute_humidity"
    /\ Len(out) = 1
    /\ humA # humB
    /\ _temperature # None
    /\ HumidityNum(arg, Val(humA), Val(humB), Val(_temperature))
          > 100 * HumidityDen(Val(humA), Val(humB))
    /\ out[1] = Ret(Some(100))

\* two's-complement reading of a 16-bit word
Signed16(x) == IF x >= 32768 THEN x - 65536 ELSE x

\* the coefficient C9 describes, from the frames of its two sub-reads
SignedCoefficient(fh, fl) ==
    IF CrcOk3(fh) /\ CrcOk3(fl) THEN Some(Signed16(fh[1] * 256 + fl[1])) ELSE None

\* C9 (as claimed): each coefficient is the signed 16-bit value whose high byte
\* is the byte read for the high command and whose low byte is the byte read
\* for command+1, and is absent if either sub-read fails its CRC check.
C9_CoefficientIsSigned16 ==
    RoundDone => /\ humA = SignedCoefficient(rx[1], rx[2])
                 /\ humB = SignedCoefficient(rx[3], rx[4])

\* C10: a transport error raised by a read is caught and the read is made
\* again; no such error leaves _read or a public operation.
C10_ReadErrorsAreRetried ==
    /\ result.exc = "OSError" => result.at = "writeto"
    /\ (errs > 0 /\ pc # "read")
          => (ReadReturned /\ attempts = busy + errs + 1)

\* C10 witness: a measurement returned a value after a read attempt raised.
C10_Witness ==
    /\ Done("get_temperature")
    /\ errs > 0
    /\ result.kind = "return"
    /\ result.val # None


\* bus entries
IsWrite(e) == e[1] = "w"
IsRead(e) == e[1] = "r"
IsCoefCommand(cmd) == \E k \in 1..4 : cmd = CoefCommands[k]

\* C11 (as claimed): a transport error raised by a write is retried by the
\* driver and does not leave the operation on the first failure.
C11_WriteErrorsAreRetried == ~(result.kind = "raise" /\ result.at = "writeto")

\* C12: inverting any one bit of a word changes its checksum, so the corrupted
\* word under the unchanged CRC byte is rejected; the checksum is in 0..255.
C12_SingleBitFlipDetected ==
    (op = "_calculate_checksum" /\ Len(out) = 4)
        => /\ out[3] # out[2]
           /\ out[4] = None
           /\ out[2] \in 0..255
           /\ out[3] \in 0..255

\* C12 witness: bit 15 of a word inverted, both checksums computed and
\* different, the corrupted frame rejected.
C12_Witness ==
    /\ op = "_calculate_checksum"
    /\ Len(out) = 4
    /\ out[1] = 15
    /\ arg > 0
    /\ out[3] # out[2]
    /\ out[4] = None

\* C13: the cached temperature is None until a temperature word passes its CRC
\* check and then the conversion of the last word that did; a temperature read
\* that fails its check, a humidity read and soft_reset leave it as it was.
C13_CacheIsLastValidTemperature ==
    /\ _temperature = IF last_temp_word = None THEN None
                      ELSE Some(_compute_temperature(Val(last_temp_word)))
    /\ (Done("get_temperature") /\ Len(rx) = 1 /\ ~CrcOk3(rx[1]))
          => _temperature = entry_temperature
    /\ (op = "get_humidity" /\ stage = 0) => _temperature = entry_temperature
    /\ op = "soft_reset" => _temperature = entry_temperature

\* C13 witness: a temperature read replaced a different cached temperature.
C13_Witness ==
    /\ Done("get_temperature")
    /\ entry_temperature # None
    /\ _temperature # entry_temperature
    /\ result = Ret(_temperature)

\* C14: after construction no step changes humA or humB, and no public
\* operation writes a coefficient-read command.
C14_CoefficientsKept ==
    [][op' \in PublicOps
          => /\ humA' = humA
             /\ humB' = humB
             /\ \A i \in 1..Len(bus') :
                   IsWrite(bus'[i]) => ~IsCoefCommand(bus'[i][2])]_vars

\* C14 witness: every kind of public operation has run and humidity has been
\* converted with the coefficients of construction.
C14_Witness ==
    /\ Done("get_humidity")
    /\ result.kind = "return"
    /\ result.val # None
    /\ humA = _get_coefficient(coef[1], coef[2])
    /\ humB = _get_coefficient(coef[3], coef[4])

\* C15: get_humidity writes the measure-humidity command first, and goes on to
\* a measure-temperature command exactly when the humidity word passed its CRC
\* check and no temperature was cached; otherwise it writes one command only.
C15_HumidityMeasuresTemperatureWhenNeeded ==
    /\ (op = "get_humidity" /\ bus # <<>>) => bus[1] = Written(CMD_MEASURE_HUMIDITY)
    /\ (op = "get_humidity" /\ stage = 1)
          => /\ CrcOk3(rx[1])
             /\ entry_temperature = None
             /\ SubSeq(bus, 1, 2) = <<Written(CMD_MEASURE_HUMIDITY), ReadRun(3)>>
             /\ Len(bus) >= 3 => bus[3] = Written(CMD_MEASURE_TEMPERATURE)
    /\ (op = "get_humidity" /\ stage = 0 /\ Len(rx) = 1)
          => /\ pc = "idle"
             /\ ~CrcOk3(rx[1]) \/ entry_temperature # None
             /\ bus = <<Written(CMD_MEASURE_HUMIDITY), ReadRun(3)>>
             /\ _temperature = entry_temperature

\* C15 witness: a cached temperature, a valid humidity word, one command.
C15_Witness ==
    /\ Done("get_humidity")
    /\ entry_temperature # None
    /\ Len(rx) = 1
    /\ CrcOk3(rx[1])
    /\ result.kind = "return"
    /\ bus = <<Written(CMD_MEASURE_HUMIDITY), ReadRun(3)>>

\* what __init__ has put on the bus after the soft reset and k more entries
\* of the current round
ConstructionBus(k) ==
    SubSeq(<<Written(CMD_SOFT_RESET),
             Written(CMD_GET_HUMCOEFA_H), ReadRun(3),
             Written(CMD_GET_HUMCOEFA_H + 1), ReadRun(3),
             Written(CMD_GET_HUMCOEFB_H), ReadRun(3),
             Written(CMD_GET_HUMCOEFB_H + 1), ReadRun(3)>>, 1, k + 1)

\* C16: construction writes the soft reset first and once; every later command
\* is one of a group of four coefficient commands in the order 0xD208..0xD20B,
\* each followed by a 3-byte read, all four issued whatever the CRC results;
\* construction returns right after the first group whose four checks pass.
C16_ConstructionSequence ==
    /\ (op = "__init__" /\ bus # <<>>)
          => \E k \in 0..8 :
                /\ bus = ConstructionBus(k)
                /\ pc = "read" => (k \in {1, 3, 5, 7} /\ stage = (k + 1) \div 2)
                /\ (pc = "write" /\ k < 8) => (k \in {0, 2, 4, 6} /\ stage = k \div 2 + 1)
                /\ (pc = "write" /\ k = 8) => stage = 1
                /\ pc = "idle" => k = 8
    /\ (op = "__init__" /\ pc = "idle")
          => /\ \A i \in 1..4 : CrcOk3(rx[i])
             /\ rounds >= 1
    /\ (RoundDone /\ pc = "write") => \E i \in 1..4 : ~CrcOk3(rx[i])

\* C16 witness: a second round began, without a second soft reset, after a
\* round whose first sub-read failed its check and whose other three were made.
C16_Witness ==
    /\ op = "__init__"
    /\ rounds = 1
    /\ pc = "read"
    /\ bus = ConstructionBus(1)
    /\ Len(rx) = 4
    /\ ~CrcOk3(rx[1])

\* C17: a read run follows exactly one written command of the same operation;
\* no other command is written until the run has ended with a non-busy frame;
\* only the soft reset is written without a read following it.
C17_WriteThenReadRun ==
    /\ \A i \in 1..Len(bus) :
          /\ IsRead(bus[i])
                => (i > 1 /\ IsWrite(bus[i-1]) /\ bus[i-1][2] # CMD_SOFT_RESET)
          /\ (IsWrite(bus[i]) /\ bus[i][2] # CMD_SOFT_RESET /\ i < Len(bus))
                => IsRead(bus[i+1])
          /\ (IsWrite(bus[i]) /\ bus[i][2] = CMD_SOFT_RESET)
                => (i = 1 /\ op \in {"soft_reset", "__init__"})
    /\ pc = "read" <=> /\ bus # <<>>
                       /\ IsWrite(bus[Len(bus)])
                       /\ bus[Len(bus)][2] # CMD_SOFT_RESET
    /\ Len(bus) = Len(rx) + Cardinality({i \in 1..Len(bus) : IsWrite(bus[i])})
          \/ op = "__init__"
    /\ (pc = "idle" /\ result.kind = "return")
          => IF op = "soft_reset" THEN bus = <<Written(CMD_SOFT_RESET)>>
             ELSE IsRead(bus[Len(bus)]) /\ rx[Len(rx)][1] # 255

\* C17 witness: get_humidity wrote two commands, each followed by its read run.
C17_Witness ==
    /\ Done("get_humidity")
    /\ busy > 0
    /\ bus = <<Written(CMD_MEASURE_HUMIDITY), ReadRun(3),
               Written(CMD_MEASURE_TEMPERATURE), ReadRun(3)>>

\* C18: _read is left only by a frame that does not start with 0xFF: an
\* attempt that raises or finds a busy frame keeps the driver reading and the
\* operation unfinished; if such a frame is eventually delivered _read returns.
C18_ReadHasNoAttemptBound ==
    /\ [][pc = "read"
            => \/ /\ pc' = "read"
                  /\ result' = result
                  /\ rx' = rx
               \/ /\ pc' # "read"
                  /\ attempts' = attempts + 1
                  /\ busy' = busy
                  /\ errs' = errs
                  /\ Len(rx') >= 1
                  /\ rx'[Len(rx')][1] # 255]_vars
    /\ [](pc = "read" => result.kind = "none")
    /\ (pc = "read") ~> (pc # "read")

\* C18 witness: _read returned after a busy frame and a raising attempt.
C18_Witness == ReadReturned /\ busy = 1 /\ errs = 1 /\ attempts = 3

\* the raw words the last measurement's values were converted from
TemperatureWordUsed ==
    IF op = "get_temperature_and_humidity"
    THEN Unpack_HBHB(rx[1])[1] ELSE Unpack_HB(rx[Len(rx)])[1]
HumidityWordUsed ==
    IF op = "get_temperature_and_humidity"
    THEN Unpack_HBHB(rx[1])[3] ELSE Unpack_HB(rx[1])[1]

\* a number was returned as temperature / as humidity
TemperatureReturned ==
    /\ pc = "idle"
    /\ result.kind = "return"
    /\ \/ op = "get_temperature" /\ result.val # None
       \/ op = "get_temperature_and_humidity" /\ result.val[1] # None
HumidityReturned ==
    /\ pc = "idle"
    /\ result.kind = "return"
    /\ \/ op = "get_humidity" /\ result.val # None
       \/ op = "get_temperature_and_humidity" /\ result.val[2] # None

\* no byte 0xFF in an accepted coefficient
NoBusyByteInCoefficients ==
    /\ \A i \in 1..Len(coef) : coef[i] # Some(255)
    /\ \A h \in {humA, humB} :
          h # None => (Val(h) \div 256 # 255 /\ Val(h) % 256 # 255)

\* C19 (as claimed): no frame returned by _read starts with 0xFF, no
\* temperature or humidity returned comes from a word in 0xFF00..0xFFFF, no
\* coefficient byte 0xFF is accepted.
C19_NoValueFromBusyLookingWord ==
    /\ \A i \in 1..Len(rx) : rx[i][1] # 255
    /\ TemperatureReturned => TemperatureWordUsed < 65280
    /\ HumidityReturned => HumidityWordUsed < 65280
    /\ NoBusyByteInCoefficients

\* C19 (amended): as above, except that the humidity word of
\* get_temperature_and_humidity, which is not at the start of its frame, may
\* lie in 0xFF00..0xFFFF.
C19_NoValueFromFrameStartingBusy ==
    /\ \A i \in 1..Len(rx) : rx[i][1] # 255
    /\ TemperatureReturned => TemperatureWordUsed < 65280
    /\ (HumidityReturned /\ op = "get_humidity") => HumidityWordUsed < 65280
    /\ NoBusyByteInCoefficients

\* C19 witness: get_humidity returned a humidity after the sensor had answered
\* with a frame starting with 0xFF, which was taken as busy.
C19_Witness ==
    /\ HumidityReturned
    /\ op = "get_humidity"
    /\ busy > 0
    /\ HumidityWordUsed < 65280

\* C20: a humidity returned by get_temperature_and_humidity is the conversion
\* with the temperature returned by the same call, which is the conversion of
\* that call's temperature word.
C20_CombinedUsesOwnTemperature ==
    (HumidityReturned /\ op = "get_temperature_and_humidity")
        => /\ result.val[1] = Some(_compute_temperature(TemperatureWordUsed))
           /\ result.val[2] = Some(HumidityClamp(
                 HumidityNum(HumidityWordUsed, Val(humA), Val(humB),
                             Val(result.val[1])),
                 HumidityDen(Val(humA), Val(humB))))

\* C20 witness: another temperature was cached when the call was made, and
\* converting with it would have given another humidity.
C20_Witness ==
    /\ HumidityReturned
    /\ op = "get_temperature_and_humidity"
    /\ entry_temperature # None
    /\ entry_temperature # result.val[1]
    /\ result.val[2] # Some(HumidityClamp(
           HumidityNum(HumidityWordUsed, Val(humA), Val(humB),
                       Val(entry_temperature)),
           HumidityDen(Val(humA), Val(humB))))

====
